---- MODULE Spec2Model ----
(***************************************************************************)
(* A model of radiacodescanner.py: the RadiaCodeSpectrum decoder           *)
(* (__init__), the XML export (dump_xml) and the decode-then-export tail   *)
(* of save_spectrum.  Offsets are Python offsets (0-based); the byte at    *)
(* Python offset k of a buffer b is b[k + 1].                              *)
(***************************************************************************)
EXTENDS Integers, Sequences, FiniteSets, TLC

VARIABLES
    databuffer,         \* the bytes handed to RadiaCodeSpectrum(...)
    pc,                 \* position in save_spectrum / __init__ / dump_xml
    err,                \* the exception that ended the run, or "none"
    size,               \* local: declared size + 4
    time,               \* self.time
    coefficients,       \* self.coefficients (the raw 4-byte fields)
    last_value,         \* local of the decode loop
    i,                  \* local: the cursor
    data,               \* self.data
    count_occurrences,  \* local: repeat count of the current control word
    var_length,         \* local: width code of the current control word
    iter,               \* iterations of the for loop done in the current run
    runs,               \* history: the control words read so far
    doc,                \* the element tree built by dump_xml
    file,               \* the content of the file at args.file
    fixture             \* the channel plan a buffer was encoded from, or NoFixture

vars == <<databuffer, pc, err, size, time, coefficients, last_value, i, data,
          count_occurrences, var_length, iter, runs, doc, file, fixture>>

(***************************************************************************)
(* Bounds of the model.                                                    *)
(***************************************************************************)
MaxRepeat == 2
MaxChannels == 2

(***************************************************************************)
(* Python primitives used by the decoder.                                  *)
(***************************************************************************)
Pow2(n) == 2 ^ n

RECURSIVE BitAnd(_, _)
BitAnd(a, b) ==
    IF a = 0 \/ b = 0 THEN 0
    ELSE (a % 2) * (b % 2) + 2 * BitAnd(a \div 2, b \div 2)

RECURSIVE BitOr(_, _)
BitOr(a, b) ==
    IF a = 0 THEN b
    ELSE IF b = 0 THEN a
    ELSE (IF a % 2 = 1 \/ b % 2 = 1 THEN 1 ELSE 0) + 2 * BitOr(a \div 2, b \div 2)

Shl(a, n) == a * Pow2(n)

Shr(a, n) == a \div Pow2(n)

\* databuffer[k] is defined only for k < len(databuffer); otherwise IndexError
InRange(buf, k) == k >= 0 /\ k < Len(buf)

Idx(buf, k) == buf[k + 1]

\* databuffer[a:b]: the slice is cut at the end of the buffer, never an error
Slice(buf, a, b) ==
    LET hi == IF b < Len(buf) THEN b ELSE Len(buf)
    IN  IF a >= hi THEN << >> ELSE SubSeq(buf, a + 1, hi)

\* struct.unpack needs exactly n bytes, otherwise struct.error
UnpackOk(s, n) == Len(s) = n

RECURSIVE LittleEndian(_)
LittleEndian(s) ==
    IF s = << >> THEN 0 ELSE s[1] + 256 * LittleEndian(Tail(s))

UnpackUnsigned(s) == LittleEndian(s)

\* Two's complement: the top byte carries the sign
UnpackSigned(s) ==
    LET n   == Len(s)
        top == IF s[n] >= 128 THEN s[n] - 256 ELSE s[n]
    IN  LittleEndian(SubSeq(s, 1, n - 1)) + top * Pow2(8 * (n - 1))

(***************************************************************************)
(* One pass of the body of the for loop: the match on var_length.  Each    *)
(* case yields the exception it raises, or the result and the new cursor.  *)
(***************************************************************************)
Returns(r, n) == [err |-> "none", result |-> r, i |-> n]

Raises(e, n) == [err |-> e, result |-> 0, i |-> n]

\* Mutant of Case0: the zero read as a zero delta
Case0ZeroDelta(buf, k, last) == Returns(last, k)

Case0(buf, k, last) == Returns(0, k)

\* Mutant of Case1: the byte read as signed
Case1Signed(buf, k, last) ==
    IF ~InRange(buf, k) THEN Raises("IndexError", k)
    ELSE Returns(UnpackSigned(<<Idx(buf, k)>>), k + 1)

\* Mutant of Case1: the byte added to last_value
Case1Delta(buf, k, last) ==
    IF ~InRange(buf, k) THEN Raises("IndexError", k)
    ELSE Returns(last + BitAnd(Idx(buf, k), 255), k + 1)

Case1(buf, k, last) ==
    IF ~InRange(buf, k) THEN Raises("IndexError", k)
    ELSE Returns(BitAnd(Idx(buf, k), 255), k + 1)

\* Mutant of Case2: the delta unpacked as unsigned ("<B")
Case2Unsigned(buf, k, last) ==
    LET s == Slice(buf, k, k + 1)
    IN  IF ~UnpackOk(s, 1) THEN Raises("struct.error", k)
        ELSE Returns(last + UnpackUnsigned(s), k + 1)

Case2(buf, k, last) ==
    LET s == Slice(buf, k, k + 1)
    IN  IF ~UnpackOk(s, 1) THEN Raises("struct.error", k)
        ELSE Returns(last + UnpackSigned(s), k + 1)

\* Mutant of Case3: a short slice decoded as it is, without the length check
Case3Unchecked(buf, k, last) ==
    LET s == Slice(buf, k, k + 2)
    IN  Returns(last + (IF Len(s) = 0 THEN 0 ELSE UnpackSigned(s)), k + 2)

Case3(buf, k, last) ==
    LET s == Slice(buf, k, k + 2)
    IN  IF ~UnpackOk(s, 2) THEN Raises("struct.error", k)
        ELSE Returns(last + UnpackSigned(s), k + 2)

Case4(buf, k, last) ==
    IF ~InRange(buf, k + 2) THEN Raises("IndexError", k)
    ELSE LET r1 == BitOr(Shl(BitAnd(Idx(buf, k + 2), 255), 16),
                         Shl(BitAnd(Idx(buf, k + 1), 255), 8))
             r2 == BitOr(r1, BitAnd(Idx(buf, k), 255))
             r3 == BitAnd(r2, 16777215)
         IN  Returns(r3 + last, k + 3)

\* Mutant of Case5: the mask applied to the sum
Case5MaskAfterAdd(buf, k, last) ==
    IF ~InRange(buf, k + 3) THEN Raises("IndexError", k)
    ELSE LET r1 == BitOr(Shl(BitAnd(Idx(buf, k + 3), 255), 24),
                         Shl(BitAnd(Idx(buf, k + 2), 255), 16))
             r2 == BitOr(r1, BitOr(Shl(BitAnd(Idx(buf, k + 1), 255), 8),
                                   BitAnd(Idx(buf, k), 255)))
         IN  Returns((r2 + last) % 16777216, k + 4)

Case5(buf, k, last) ==
    IF ~InRange(buf, k + 3) THEN Raises("IndexError", k)
    ELSE LET r1 == BitOr(Shl(BitAnd(Idx(buf, k + 3), 255), 24),
                         Shl(BitAnd(Idx(buf, k + 2), 255), 16))
             r2 == BitOr(r1, BitOr(Shl(BitAnd(Idx(buf, k + 1), 255), 8),
                                   BitAnd(Idx(buf, k), 255)))
             r3 == BitAnd(r2, 16777215)
         IN  Returns(r3 + last, k + 4)

\* Mutant of CaseOther: an unknown width code decoded as a zero
CaseOtherAsZero(buf, k, last) == Returns(0, k)

CaseOther(buf, k, last) == Raises("RuntimeError: var_length", k)

MatchVarLength(w, buf, k, last) ==
    CASE w = 0 -> Case0(buf, k, last)
      [] w = 1 -> Case1(buf, k, last)
      [] w = 2 -> Case2(buf, k, last)
      [] w = 3 -> Case3(buf, k, last)
      [] w = 4 -> Case4(buf, k, last)
      [] w = 5 -> Case5(buf, k, last)
      [] OTHER -> CaseOther(buf, k, last)

\* position = (databuffer[i+1] & 0xFF) << 8 | (databuffer[i] & 0xFF)
Position(buf, k) ==
    BitOr(Shl(BitAnd(Idx(buf, k + 1), 255), 8), BitAnd(Idx(buf, k), 255))

CountOccurrences(position) == BitAnd(Shr(position, 4), 4095)

VarLength(position) == BitAnd(position, 15)

(***************************************************************************)
(* dump_xml: str() of an int, the elements of the tree in document order   *)
(* (those whose text comes from the modelled state), and the bytes that    *)
(* tree.write sends to the file.                                           *)
(***************************************************************************)
DigitChar(d) == <<"0", "1", "2", "3", "4", "5", "6", "7", "8", "9">>[d + 1]

RECURSIVE StrNat(_)
StrNat(n) ==
    IF n < 10 THEN <<DigitChar(n)>>
    ELSE Append(StrNat(n \div 10), DigitChar(n % 10))

Str(n) == IF n < 0 THEN <<"-">> \o StrNat(-n) ELSE StrNat(n)

Element(tag, text) == [tag |-> tag, text |-> text]

\* Mutant of BuildTree: the loop over self.data misses its first element
BuildTreeSkipsFirst(d, t) ==
    <<Element("FormatVersion", <<"1", "2", "0", "9", "2", "0">>),
      Element("NumberOfChannels", Str(Len(d))),
      Element("ChannelPitch", <<"1">>),
      Element("PolynomialOrder", <<"2">>),
      Element("MeasurementTime", Str(t)),
      Element("LiveTime", Str(t))>>
    \o [k \in 1..(Len(d) - 1) |-> Element("DataPoint", Str(d[k + 1]))]
    \o <<Element("Visible", <<"t", "r", "u", "e">>),
         Element("Format", <<"B", "a", "s", "e", "6", "4">>)>>

BuildTree(d, t) ==
    <<Element("FormatVersion", <<"1", "2", "0", "9", "2", "0">>),
      Element("NumberOfChannels", Str(Len(d))),
      Element("ChannelPitch", <<"1">>),
      Element("PolynomialOrder", <<"2">>),
      Element("MeasurementTime", Str(t)),
      Element("LiveTime", Str(t))>>
    \o [k \in 1..Len(d) |-> Element("DataPoint", Str(d[k]))]
    \o <<Element("Visible", <<"t", "r", "u", "e">>),
         Element("Format", <<"B", "a", "s", "e", "6", "4">>)>>

Serialize(tree) == <<Element("xml_declaration", <<"u", "t", "f", "-", "8">>)>> \o tree

(***************************************************************************)
(* The steps of save_spectrum from the construction of the record on.      *)
(***************************************************************************)
Fail(e) ==
    /\ pc' = "failed"
    /\ err' = e

\* Mutant of CheckSize: only a buffer shorter than declared is refused
CheckSizeShortOnly ==
    /\ pc = "start"
    /\ LET s == Slice(databuffer, 0, 4)
       IN  IF ~UnpackOk(s, 4)
           THEN Fail("struct.error") /\ UNCHANGED size
           ELSE /\ size' = UnpackSigned(s) + 4
                /\ IF size' > Len(databuffer)
                   THEN Fail("RuntimeError: size")
                   ELSE pc' = "header" /\ UNCHANGED err
    /\ UNCHANGED <<databuffer, time, coefficients, last_value, i, data,
                   count_occurrences, var_length, iter, runs, doc, file, fixture>>

\* size = struct.unpack("<i", databuffer[0:4])[0] + 4; if size != len(databuffer): raise
CheckSize ==
    /\ pc = "start"
    /\ LET s == Slice(databuffer, 0, 4)
       IN  IF ~UnpackOk(s, 4)
           THEN Fail("struct.error") /\ UNCHANGED size
           ELSE /\ size' = UnpackSigned(s) + 4
                /\ IF size' # Len(databuffer)
                   THEN Fail("RuntimeError: size")
                   ELSE pc' = "header" /\ UNCHANGED err
    /\ UNCHANGED <<databuffer, time, coefficients, last_value, i, data,
                   count_occurrences, var_length, iter, runs, doc, file, fixture>>

\* self.time, self.coefficients, then last_value = 0; i = 32; self.data = []
ParseHeader ==
    /\ pc = "header"
    /\ LET t  == Slice(databuffer, 16, 20)
           c0 == Slice(databuffer, 20, 24)
           c1 == Slice(databuffer, 24, 28)
           c2 == Slice(databuffer, 28, 32)
       IN  IF \E s \in {t, c0, c1, c2} : ~UnpackOk(s, 4)
           THEN Fail("struct.error")
                /\ UNCHANGED <<time, coefficients, last_value, i, data>>
           ELSE /\ time' = UnpackUnsigned(t)
                /\ coefficients' = <<c0, c1, c2>>
                /\ last_value' = 0
                /\ i' = 32
                /\ data' = << >>
                /\ pc' = "while"
                /\ UNCHANGED err
    /\ UNCHANGED <<databuffer, size, count_occurrences, var_length, iter, runs,
                   doc, file, fixture>>

\* The test of the while loop and, inside it, the read of the control word.
\* A control word with no occurrences leaves the for loop at once.
ReadControlWord ==
    /\ pc = "while"
    /\ IF ~(i < size)
       THEN /\ pc' = "decoded"
            /\ UNCHANGED <<err, i, count_occurrences, var_length, iter, runs>>
       ELSE IF ~InRange(databuffer, i + 1)
       THEN /\ Fail("IndexError")
            /\ UNCHANGED <<i, count_occurrences, var_length, iter, runs>>
       ELSE LET position == Position(databuffer, i)
            IN  /\ i' = i + 2
                /\ count_occurrences' = CountOccurrences(position)
                /\ var_length' = VarLength(position)
                /\ iter' = 0
                /\ runs' = Append(runs, [count |-> count_occurrences',
                                         width |-> var_length'])
                /\ pc' = IF count_occurrences' = 0 THEN "while" ELSE "for"
                /\ UNCHANGED err
    /\ UNCHANGED <<databuffer, size, time, coefficients, last_value, data,
                   doc, file, fixture>>

\* One iteration of the for loop: the match, last_value = result, append.
DecodeChannel ==
    /\ pc = "for"
    /\ iter < count_occurrences
    /\ LET m == MatchVarLength(var_length, databuffer, i, last_value)
       IN  IF m.err # "none"
           THEN Fail(m.err) /\ UNCHANGED <<i, last_value, data, iter>>
           ELSE /\ i' = m.i
                /\ last_value' = m.result
                /\ data' = Append(data, m.result)
                /\ iter' = iter + 1
                /\ pc' = IF iter' = count_occurrences THEN "while" ELSE "for"
                /\ UNCHANGED err
    /\ UNCHANGED <<databuffer, size, time, coefficients, count_occurrences,
                   var_length, runs, doc, file, fixture>>

\* dump_xml up to tree = etree.ElementTree(root)
DumpXml ==
    /\ pc = "decoded"
    /\ doc' = BuildTree(data, time)
    /\ pc' = "built"
    /\ UNCHANGED <<databuffer, err, size, time, coefficients, last_value, i, data,
                   count_occurrences, var_length, iter, runs, file, fixture>>

\* tree.write(filename, ...): the file is opened for writing (and so emptied),
\* the document is written into it, and the file is closed.  The open can be
\* refused (k = -1), and the write can fail after any part of the document.
TreeWrite ==
    /\ pc = "built"
    /\ LET out == Serialize(doc)
       IN  \E k \in -1..Len(out) :
             IF k = -1 THEN Fail("OSError") /\ UNCHANGED file
             ELSE IF k < Len(out) THEN Fail("OSError") /\ file' = SubSeq(out, 1, k)
             ELSE pc' = "written" /\ file' = out /\ UNCHANGED err
    /\ UNCHANGED <<databuffer, size, time, coefficients, last_value, i, data,
                   count_occurrences, var_length, iter, runs, doc, fixture>>

Next ==
    \/ CheckSize
    \/ ParseHeader
    \/ ReadControlWord
    \/ DecodeChannel
    \/ DumpXml
    \/ TreeWrite

(***************************************************************************)
(* The buffers the decoder is run on.  A buffer is a 32-byte header (the   *)
(* size field, the elapsed seconds at [16,20), three float fields) and a   *)
(* payload.  ToBytes, ControlWord, EncodeField and Encode are the hand     *)
(* encoder of the wire format; the program itself only decodes.            *)
(***************************************************************************)
ToBytes(n, k) == [j \in 1..k |-> (n \div Pow2(8 * (j - 1))) % 256]

RECURSIVE Flatten(_)
Flatten(ss) == IF Len(ss) = 0 THEN << >> ELSE ss[1] \o Flatten(Tail(ss))

Header(declared) ==
    ToBytes(declared, 4) \o [j \in 1..12 |-> 0] \o ToBytes(3661, 4)
    \o <<0, 0, 0, 0>> \o <<0, 0, 128, 63>> \o <<0, 0, 0, 0>>

ControlWord(rep, w) == ToBytes(rep * 16 + w, 2)

\* Field contents tried for each width code: small, sign-bit and all-ones fields.
\* The 4-byte fields stay below 2^31, the largest integer TLC computes with.
FieldSamples(w) ==
    CASE w = 1 -> {<<1>>, <<128>>, <<255>>}
      [] w = 2 -> {<<1>>, <<128>>, <<255>>}
      [] w = 3 -> {<<1, 0>>, <<0, 128>>, <<255, 255>>}
      [] w = 4 -> {<<1, 0, 0>>, <<0, 0, 1>>, <<255, 255, 255>>}
      [] w = 5 -> {<<1, 0, 0, 0>>, <<1, 0, 0, 1>>, <<255, 255, 255, 64>>}
      [] OTHER -> {<< >>}

WidthCodes == {0, 1, 2, 3, 4, 5, 6, 15}

RunsOf(w) ==
    UNION {{ControlWord(rep, w) \o Flatten(fs) : fs \in [1..rep -> FieldSamples(w)]} :
           rep \in 0..MaxRepeat}

\* The run under test: every width code with 0..MaxRepeat occurrences, and the
\* largest repeat count with an unknown width code.
Runs == UNION {RunsOf(w) : w \in WidthCodes} \cup {ControlWord(4095, 6), ControlWord(4095, 15)}

\* What precedes the run under test: nothing, or one run that sets last_value
\* (to 200, to -1, to 2^24 - 1, to 0).
Seeds ==
    {<< >>,
     ControlWord(1, 1) \o <<200>>,
     ControlWord(1, 2) \o <<255>>,
     ControlWord(1, 4) \o <<255, 255, 255>>,
     ControlWord(1, 0)}

\* What follows it: nothing, a complete delta run, a single byte, a run whose
\* field is cut short, a control word with no occurrences.
Suffixes ==
    {<< >>,
     ControlWord(1, 2) \o <<1>>,
     ControlWord(1, 3) \o <<255, 255>>,
     <<7>>,
     ControlWord(1, 1),
     ControlWord(1, 3) \o <<1>>,
     ControlWord(1, 5) \o <<1, 0, 0>>,
     ControlWord(0, 6)}

Payloads == {s \o r \o t : s \in Seeds, r \in Runs, t \in Suffixes}

\* The size field: right, off by one either way, or negative.
DeclaredSizes(len) == {len - 4, len - 5, len - 3, -1}

CapturedBuffers ==
    {Header(d) \o p : <<p, d>> \in
        UNION {{<<q, e>> : e \in DeclaredSizes(32 + Len(q))} : q \in Payloads}}

\* Buffers that end inside the header.
ShortLengths == {0, 3, 4, 19, 20, 31}

ShortBuffers ==
    UNION {{SubSeq(Header(d), 1, n) : d \in DeclaredSizes(n)} : n \in ShortLengths}

NoFixture == [encoded |-> FALSE, channels |-> << >>]

\* The hand encoder: a plan gives each channel value its width code and says
\* whether it joins the run of the value before it.
ChannelValues == {0, 100, 200, 70000}

ValidCode(code, v, prev) ==
    CASE code = 0 -> v = 0
      [] code = 1 -> v >= 0 /\ v <= 255
      [] code = 2 -> v - prev >= -128 /\ v - prev <= 127
      [] code = 3 -> v - prev >= -32768 /\ v - prev <= 32767
      [] OTHER    -> v - prev >= 0 /\ v - prev <= 16777215

PrevValue(plan, k) == IF k = 1 THEN 0 ELSE plan[k - 1].value

ValidEntry(plan, e) ==
    /\ ValidCode(e.code, e.value, PrevValue(Append(plan, e), Len(plan) + 1))
    /\ e.joined => (Len(plan) > 0 /\ plan[Len(plan)].code = e.code)

PlanEntries == [value : ChannelValues, code : 0..5, joined : BOOLEAN]

RECURSIVE PlansOfLength(_)
PlansOfLength(n) ==
    IF n = 0 THEN {<< >>}
    ELSE LET shorter == PlansOfLength(n - 1)
         IN  {Append(pe[1], pe[2]) :
                 pe \in {x \in shorter \X PlanEntries : ValidEntry(x[1], x[2])}}

Plans == UNION {PlansOfLength(n) : n \in 0..MaxChannels}

EncodeField(code, v, prev) ==
    CASE code = 0 -> << >>
      [] code = 1 -> ToBytes(v, 1)
      [] code = 2 -> ToBytes(v - prev, 1)
      [] code = 3 -> ToBytes(v - prev, 2)
      [] code = 4 -> ToBytes(v - prev, 3)
      [] OTHER    -> ToBytes(v - prev, 4)

RECURSIVE RunLength(_, _)
RunLength(plan, k) ==
    IF k < Len(plan) /\ plan[k + 1].joined THEN 1 + RunLength(plan, k + 1) ELSE 1

RECURSIVE Encode(_, _)
Encode(plan, k) ==
    IF k > Len(plan) THEN << >>
    ELSE LET n == RunLength(plan, k)
         IN  ControlWord(n, plan[k].code)
             \o Flatten([j \in 1..n |->
                    EncodeField(plan[k].code, plan[k + j - 1].value,
                                PrevValue(plan, k + j - 1))])
             \o Encode(plan, k + n)

ChannelsOf(plan) == [k \in 1..Len(plan) |-> plan[k].value]

EncodedBuffer(plan) == LET p == Encode(plan, 1) IN Header(28 + Len(p)) \o p

OldFile == <<Element("previous_document", << >>)>>

Init ==
    /\ \/ databuffer \in CapturedBuffers \cup ShortBuffers /\ fixture = NoFixture
       \/ \E plan \in Plans :
            /\ databuffer = EncodedBuffer(plan)
            /\ fixture = [encoded |-> TRUE, channels |-> ChannelsOf(plan)]
    /\ pc = "start"
    /\ err = "none"
    /\ size = 0
    /\ time = 0
    /\ coefficients = << >>
    /\ last_value = 0
    /\ i = 0
    /\ data = << >>
    /\ count_occurrences = 0
    /\ var_length = 0
    /\ iter = 0
    /\ runs = << >>
    /\ doc = << >>
    /\ file = OldFile

Spec == Init /\ [][Next]_vars

(***************************************************************************)
(* Vocabulary of the properties, stated on the bytes of the buffer and not *)
(* through the decoder's own operators.                                    *)
(***************************************************************************)
Byte(k) == databuffer[k + 1]

Signed8(b) == IF b >= 128 THEN b - 256 ELSE b

Signed16(lo, hi) == lo + 256 * Signed8(hi)

DeclaredSize == Byte(0) + 256 * Byte(1) + 65536 * Byte(2) + 16777216 * Signed8(Byte(3))

FieldWidth(w) == IF w = 0 THEN 0 ELSE IF w <= 2 THEN 1 ELSE w - 1

SizeMismatch == Len(databuffer) >= 4 /\ DeclaredSize + 4 # Len(databuffer)

Returned == pc \in {"decoded", "built", "written"} \/ (pc = "failed" /\ err = "OSError")

TruncatedErrors == {"IndexError", "struct.error"}

Last(s) == s[Len(s)]

\* A step of the for loop that decodes a value of width code w
Decodes(w) ==
    /\ pc = "for"
    /\ iter < count_occurrences
    /\ var_length = w
    /\ pc' # "failed"

----------------------------------------------------------------------------
\* C1: a buffer whose signed 32-bit little-endian field at [0,4) plus 4 differs
\* from its length is rejected with the size error before any control word is
\* read or any channel decoded: no record, no document, the file untouched.
C1_SizeMismatchRejected ==
    (SizeMismatch /\ pc # "start") =>
        /\ pc = "failed"
        /\ err = "RuntimeError: size"
        /\ runs = << >>
        /\ data = << >>
        /\ doc = << >>
        /\ file = OldFile

\* C1 witness: a buffer with a payload, one byte longer than it declares, rejected
C1_Witness ==
    /\ Len(databuffer) > 34
    /\ DeclaredSize + 4 = Len(databuffer) - 1
    /\ pc = "failed"
    /\ err = "RuntimeError: size"

\* C2: decoding a buffer made by the hand encoder from a channel sequence never
\* fails and returns exactly that sequence, in order.
C2_RoundTrip ==
    fixture.encoded =>
        /\ err \in {"none", "OSError"}
        /\ Returned => data = fixture.channels

\* C2 witness: two channels, the second a negative delta in width code 2
C2_Witness ==
    /\ fixture.encoded
    /\ pc = "decoded"
    /\ data = <<200, 100>>
    /\ runs = <<[count |-> 1, width |-> 1], [count |-> 1, width |-> 2]>>

UnknownWidth(k) == runs[k].width \notin 0..5

StoppedAt(k) ==
    /\ k = Len(runs)
    /\ iter = 0
    /\ pc = "for" \/ (pc = "failed" /\ err = "RuntimeError: var_length")

\* C3 as stated: a control word with a width code outside 0..5 ends the decoding
\* with the width-code error whatever its repeat count: the state is either just
\* after that control word or the failure at it, nothing appended since.
C3_Original == \A k \in 1..Len(runs) : UnknownWidth(k) => StoppedAt(k)

\* C3 amended: it does so when the repeat count is 1..4095; with a repeat count
\* of 0 the for loop never reaches the match and the control word raises nothing.
C3_UnknownWidthFails ==
    \A k \in 1..Len(runs) :
        /\ (UnknownWidth(k) /\ runs[k].count >= 1) => StoppedAt(k)
        /\ (UnknownWidth(k) /\ runs[k].count = 0 /\ k = Len(runs)) =>
               err # "RuntimeError: var_length"

\* C3 witness: the failure at a second control word, of repeat count 4095
C3_Witness ==
    /\ pc = "failed"
    /\ err = "RuntimeError: var_length"
    /\ Len(runs) = 2
    /\ runs[2].count = 4095
    /\ Len(data) = 1

NeedsByteBeyond ==
    \/ pc = "while" /\ i < size /\ i + 2 > size
    \/ /\ pc = "for"
       /\ iter < count_occurrences
       /\ var_length \in 1..5
       /\ i + FieldWidth(var_length) > size

\* C4: past the size check, a control word or a field that needs a byte at or
\* beyond size ends the decoding with IndexError or struct.error and no record;
\* the cursor stays within [32, size], so no byte outside [32, size) is decoded,
\* and the loop is left with the cursor at size.
C4_Truncated ==
    [][(pc \in {"while", "for"}) =>
          /\ size = Len(databuffer)
          /\ i >= 32 /\ i' <= size
          /\ NeedsByteBeyond =>
                (pc' = "failed" /\ err' \in TruncatedErrors /\ data' = data)
          /\ pc' = "decoded" => i' = size
      ]_vars

\* C4 witness: a 16-bit field with one byte left raised struct.error
C4_Witness ==
    /\ pc = "failed"
    /\ err = "struct.error"
    /\ var_length = 3
    /\ size = Len(databuffer)
    /\ i = size - 1
    /\ Len(data) >= 1

NoSignedRun == \A r \in 1..Len(runs) : runs[r].width \in {2, 3} => runs[r].count = 0

DigitValue(c) ==
    CASE c = "0" -> 0 [] c = "1" -> 1 [] c = "2" -> 2 [] c = "3" -> 3 [] c = "4" -> 4
      [] c = "5" -> 5 [] c = "6" -> 6 [] c = "7" -> 7 [] c = "8" -> 8 [] c = "9" -> 9

RECURSIVE ParseNat(_)
ParseNat(t) ==
    IF Len(t) = 0 THEN 0
    ELSE 10 * ParseNat(SubSeq(t, 1, Len(t) - 1)) + DigitValue(Last(t))

ParseInt(t) == IF t[1] = "-" THEN 0 - ParseNat(Tail(t)) ELSE ParseNat(t)

IsDataPoint(e) == e.tag = "DataPoint"

IsNumberOfChannels(e) == e.tag = "NumberOfChannels"

\* C6: the document holds one DataPoint per element of data, in index order,
\* each reading as that element, and one NumberOfChannels reading as their
\* number; so does the file once written.  An empty data is no exception.
C6_DataPoints ==
    (pc \in {"built", "written"}) =>
        LET points == SelectSeq(doc, IsDataPoint)
            number == SelectSeq(doc, IsNumberOfChannels)
        IN  /\ Len(points) = Len(data)
            /\ \A k \in 1..Len(data) : ParseInt(points[k].text) = data[k]
            /\ Len(number) = 1
            /\ ParseInt(number[1].text) = Len(data)
            /\ pc = "written" => SelectSeq(file, IsDataPoint) = points
            /\ pc = "written" => SelectSeq(file, IsNumberOfChannels) = number

\* C6 witness: a record with no channel, written
C6_Witness ==
    /\ pc = "written"
    /\ data = << >>
    /\ SelectSeq(file, IsDataPoint) = << >>
    /\ SelectSeq(file, IsNumberOfChannels) = <<Element("NumberOfChannels", <<"0">>)>>

\* C7: a run that fails leaves the file as it was, and the file holds a new
\* document only when the export ran to completion.
C7_AtomicExport ==
    /\ pc = "failed" => file = OldFile
    /\ file # OldFile => pc = "written"

\* C8 as stated: a zero run appends zeros, consumes nothing and leaves
\* last_value as it was before the run.
C8_Original ==
    [][Decodes(0) =>
          /\ data' = Append(data, 0)
          /\ i' = i
          /\ last_value' = last_value
      ]_vars

DeltaField(w) ==
    CASE w = 2 -> Signed8(Byte(i))
      [] w = 3 -> Signed16(Byte(i), Byte(i + 1))
      [] OTHER -> Byte(i) + 256 * Byte(i + 1) + 65536 * Byte(i + 2)

AfterZeroRun ==
    /\ Len(runs) >= 2
    /\ runs[Len(runs) - 1].width = 0
    /\ runs[Len(runs) - 1].count >= 1
    /\ iter = 0

\* C8 amended: each occurrence of a zero run appends a zero, consumes nothing
\* and sets last_value to 0, the run appending exactly N zeros; a delta-coded
\* value right after a zero run of N >= 1 is 0 plus its delta.
C8_ZeroRunResets ==
    [][/\ Decodes(0) =>
            /\ data' = Append(data, 0)
            /\ i' = i
            /\ last_value' = 0
            /\ iter' = count_occurrences =>
                  \A j \in 1..count_occurrences : data'[Len(data') - j + 1] = 0
       /\ (AfterZeroRun /\ \E w \in 2..5 : Decodes(w)) =>
            Last(data') = DeltaField(var_length)
      ]_vars

\* C8 witness: 200, then a zero run of two, then a delta of +1 decoded as 1
C8_Witness ==
    /\ Len(runs) = 3
    /\ runs[2] = [count |-> 2, width |-> 0]
    /\ runs[3] = [count |-> 1, width |-> 2]
    /\ data = <<200, 0, 0, 1>>

ExpectedValue(w) == IF w = 1 THEN Byte(i) ELSE last_value + DeltaField(w)

\* C9: a width-code 1 value is the next byte, unsigned, whatever last_value is;
\* a width-code 2, 3, 4 or 5 value is last_value plus the signed 8-bit, signed
\* 16-bit, unsigned 24-bit or low-24-bit delta; 1, 1, 2, 3 and 4 bytes are consumed.
C9_WidthCodes ==
    [][\A w \in 1..5 : Decodes(w) =>
          /\ data' = Append(data, ExpectedValue(w))
          /\ last_value' = ExpectedValue(w)
          /\ i' = i + FieldWidth(w)
      ]_vars

\* C9 witness: the byte 128 decoded with width code 1 after the value 200
C9_Witness ==
    /\ var_length = 1
    /\ iter >= 1
    /\ Len(data) >= 2
    /\ data[Len(data) - 1] = 200
    /\ Last(data) = 128

TopBytes == 0..64

Field32 == Byte(i) + 256 * Byte(i + 1) + 65536 * Byte(i + 2) + 16777216 * Byte(i + 3)

\* C10: a width-code 5 value is last_value plus the field modulo 2^24, the mask
\* taken before the addition; the cursor advances by 4; the field's top byte
\* changes nothing.
C10_TopByteIgnored ==
    [][Decodes(5) =>
          /\ Last(data') = last_value + (Field32 % 16777216)
          /\ i' = i + 4
          /\ \A t \in TopBytes :
                MatchVarLength(5, [databuffer EXCEPT ![i + 4] = t], i, last_value).result
                    = Last(data')
      ]_vars

\* C10 witness: a field with a non-zero top byte decoded onto a last_value of
\* 2^24 - 1, so that masking the sum would have given another value
C10_Witness ==
    /\ var_length = 5
    /\ iter >= 1
    /\ Len(data) >= 2
    /\ data[Len(data) - 1] = 16777215
    /\ databuffer[i] # 0
    /\ Last(data) > 16777215

====
